---- MODULE Spec2Model ----
(***************************************************************************)
(* uLearn API: the course repository and the content hierarchy manager     *)
(* (sections of a course, modules of a section) over a document store.     *)
(*                                                                         *)
(* Documents are records; a collection is the set of its documents.  Ids   *)
(* are drawn from counters and never reused (ObjectIds).  Only the fields  *)
(* the handlers read or decide on are kept: a section is (id, courseId,    *)
(* order), a module is (id, sectionId, order), a course is (id,            *)
(* instructorId, title, status, enrollmentCount).                          *)
(*                                                                         *)
(* Four specifications share the state:                                    *)
(*   Spec        every content handler as one atomic request;              *)
(*   SpecCourse  the course handlers as atomic requests;                   *)
(*   SpecConc    the create handlers split at their awaits, so that        *)
(*               requests interleave;                                      *)
(*   SpecTxn     deleteSection's transaction step by step, among other     *)
(*               requests.                                                 *)
(***************************************************************************)
EXTENDS Integers, Sequences, FiniteSets, TLC

\* ---- bounds of the model ------------------------------------------------
MaxCourses == 2
MaxSections == 2
MaxModules == 2
MaxOrder == 2
MaxRequests == 2

MaxUsers == 2
MaxPage == 2
MaxLimit == 2
MaxEnrollments == 1

CourseIds == 1..MaxCourses
SectionIds == 1..MaxSections
ModuleIds == 1..MaxModules
Orders == 1..MaxOrder
Slots == 1..MaxRequests

\* the authenticated identities a request can carry (req.user)
Actors ==
  { [id |-> "u1", role |-> "instructor"],
    [id |-> "u2", role |-> "instructor"],
    [id |-> "u3", role |-> "student"] }

InstructorIds == {a.id : a \in {x \in Actors : x.role = "instructor"}}

\* a patch without an order field (updates.order is falsy)
NoOrder == 0

Titles == {"t1", "t2"}
NoTitle == "none"
NoInstructor == "none"
UserIds == 1..MaxUsers
Emails == {"a@b.com", "A@B.com", "c@d.com"}
Passwords == {"p1", "p2"}
Salts == {"s1", "s2"}
NoStatus == "none"
NoNumber == -1
Pages == 1..MaxPage
Limits == 1..MaxLimit
SortOrders == {"asc", "desc"}
Prices == {0, 2}
Statuses == {"draft", "published", "unpublished"}

VARIABLES
  courses,        \* the Course collection
  sections,       \* the Section collection
  modules,        \* the Module collection
  nextCourseId,   \* next fresh course id
  nextSectionId,  \* next fresh section id
  nextModuleId,   \* next fresh module id
  res,            \* the last response sent: [op, status, data]
  txn,            \* deleteSection's session/transaction
  inflight,       \* SpecConc: create requests between their check and save
  users,          \* the User collection
  nextUserId      \* next fresh user id

vars == <<courses, sections, modules, nextCourseId, nextSectionId,
          nextModuleId, res, txn, inflight, users, nextUserId>>

Ids(S) == {x.id : x \in S}

Resp(op, status, data) == [op |-> op, status |-> status, data |-> data]

IdleTxn == [pc |-> "idle", courseId |-> 0, sectionId |-> 0, snapshot |-> {}]
IdleSlot == [op |-> "idle", parent |-> 0, order |-> 0]

Init ==
  /\ courses = {}
  /\ sections = {}
  /\ modules = {}
  /\ nextCourseId = 1
  /\ nextSectionId = 1
  /\ nextModuleId = 1
  /\ res = Resp("none", 0, <<>>)
  /\ txn = IdleTxn
  /\ inflight = [r \in Slots |-> IdleSlot]
  /\ users = {}
  /\ nextUserId = 1

\* ---- store queries ------------------------------------------------------

\* Course.findOne({ _id: courseId, instructorId })
OwnedCourse(courseId, instructorId) ==
  {c \in courses : c.id = courseId /\ c.instructorId = instructorId}

\* Course.findById(id)
CourseById(id) == {c \in courses : c.id = id}

\* Section.findById(sectionId)
SectionById(sectionId) == {s \in sections : s.id = sectionId}

\* the lookup by _id alone, without the courseId of the path
ScopedSectionByIdOnly(courseId, sectionId) ==
  {s \in sections : s.id = sectionId}

\* Section.findOne({ _id: sectionId, courseId })
ScopedSection(courseId, sectionId) ==
  {s \in sections : s.id = sectionId /\ s.courseId = courseId}

\* the lookup by _id alone, without the sectionId of the path
ScopedModuleByIdOnly(sectionId, moduleId) ==
  {m \in modules : m.id = moduleId}

\* Module.findOne({ _id: moduleId, sectionId })
ScopedModule(sectionId, moduleId) ==
  {m \in modules : m.id = moduleId /\ m.sectionId = sectionId}

\* Section.findOne({ courseId, order })
ExistingSection(courseId, order) ==
  {s \in sections : s.courseId = courseId /\ s.order = order}

\* Section.findOne({ courseId, order, _id: { $ne: sectionId } })
OtherSectionWithOrder(courseId, order, sectionId) ==
  {s \in sections : s.courseId = courseId /\ s.order = order /\ s.id # sectionId}

\* Module.findOne({ sectionId, order })
ExistingModule(sectionId, order) ==
  {m \in modules : m.sectionId = sectionId /\ m.order = order}

\* Module.findOne({ sectionId, order, _id: { $ne: moduleId } })
OtherModuleWithOrder(sectionId, order, moduleId) ==
  {m \in modules : m.sectionId = sectionId /\ m.order = order /\ m.id # moduleId}

\* .sort({ order: 1 }); ties in insertion (id) order
RECURSIVE SortByOrder(_)
SortByOrder(S) ==
  IF S = {} THEN <<>>
  ELSE LET m == CHOOSE x \in S : \A y \in S :
                  x.order < y.order \/ (x.order = y.order /\ x.id <= y.id)
       IN <<m>> \o SortByOrder(S \ {m})

\* the course that owns the section, resolved for module handlers:
\* Section.findById(sectionId).populate('courseId'), then
\* Course.findOne({ _id: section.courseId, instructorId })
SectionCourseOwned(sectionId, instructorId) ==
  {c \in courses : /\ c.instructorId = instructorId
                   /\ \E s \in SectionById(sectionId) : s.courseId = c.id}

\* ---- what a transaction on the store does -------------------------------

\* deleteMany without its sectionId filter
ModulesOfSectionNoFilter(sectionId) == modules

\* mongoose.model('Module').deleteMany({ sectionId }): the documents matched
ModulesOfSection(sectionId) == {m \in modules : m.sectionId = sectionId}

\* session.commitTransaction(): the staged section delete becomes visible
CommitSections(t) == {s \in sections : s.id # t.sectionId}

\* session.commitTransaction(): the staged module deletes become visible
CommitModules(t) == {m \in modules : m.id \notin t.snapshot}

\* ---- section handlers (sectionController.ts), one request at a time ------

\* createSection without its sibling-order check
createSectionStatusNoOrderCheck(a, courseId, order) ==
  IF a.role # "instructor" THEN 403
  ELSE IF OwnedCourse(courseId, a.id) = {} THEN 404
  ELSE 201

createSectionStatus(a, courseId, order) ==
  IF a.role # "instructor" THEN 403
  ELSE IF OwnedCourse(courseId, a.id) = {} THEN 404
  ELSE IF ExistingSection(courseId, order) # {} THEN 400
  ELSE 201

\* new Section({ courseId, ..., order })
NewSection(courseId, order) ==
  [id |-> nextSectionId, courseId |-> courseId, order |-> order]

createSection(a, courseId, order) ==
  LET st == createSectionStatus(a, courseId, order) IN
  /\ st = 201 => nextSectionId <= MaxSections
  /\ sections' = IF st = 201 THEN sections \cup {NewSection(courseId, order)}
                 ELSE sections
  /\ nextSectionId' = IF st = 201 THEN nextSectionId + 1 ELSE nextSectionId
  /\ res' = Resp("createSection", st, <<>>)
  /\ UNCHANGED <<courses, modules, nextCourseId, nextModuleId, txn, inflight,
                 users, nextUserId>>

getSectionResp(courseId, sectionId) ==
  IF ScopedSection(courseId, sectionId) = {}
  THEN Resp("getSection", 404, <<>>)
  ELSE Resp("getSection", 200,
            <<CHOOSE s \in ScopedSection(courseId, sectionId) : TRUE>>)

getSection(courseId, sectionId) ==
  /\ res' = getSectionResp(courseId, sectionId)
  /\ UNCHANGED <<courses, sections, modules, nextCourseId, nextSectionId,
                 nextModuleId, txn, inflight,
                 users, nextUserId>>

\* the body of updateSection / updateModule is what
\* validateRequest(updateSectionSchema / updateModuleSchema) lets through: of
\* the fields kept here, an optional order (an integer >= 1)
updateSectionStatus(a, courseId, sectionId, order) ==
  IF a.role # "instructor" THEN 403
  ELSE IF OwnedCourse(courseId, a.id) = {} THEN 404
  ELSE IF order # NoOrder /\ OtherSectionWithOrder(courseId, order, sectionId) # {}
       THEN 400
  ELSE IF ScopedSection(courseId, sectionId) = {} THEN 404
  ELSE 200

\* findOneAndUpdate(filter, updates): the document after the patch
ApplyOrder(doc, order) ==
  IF order = NoOrder THEN doc ELSE [doc EXCEPT !.order = order]

updateSection(a, courseId, sectionId, order) ==
  LET st == updateSectionStatus(a, courseId, sectionId, order) IN
  /\ sections' = IF st = 200
                 THEN {IF s \in ScopedSection(courseId, sectionId)
                       THEN ApplyOrder(s, order) ELSE s : s \in sections}
                 ELSE sections
  /\ res' = Resp("updateSection", st, <<>>)
  /\ UNCHANGED <<courses, modules, nextCourseId, nextSectionId, nextModuleId,
                 txn, inflight,
                 users, nextUserId>>

deleteSectionStatus(a, courseId, sectionId) ==
  IF a.role # "instructor" THEN 403
  ELSE IF OwnedCourse(courseId, a.id) = {} THEN 404
  ELSE IF ScopedSection(courseId, sectionId) = {} THEN 404
  ELSE 200

\* the transaction of deleteSection when nothing runs between its steps
DeleteSectionTxn(courseId, sectionId) ==
  [pc |-> "modulesDeleted", courseId |-> courseId, sectionId |-> sectionId,
   snapshot |-> Ids(ModulesOfSection(sectionId))]

deleteSection(a, courseId, sectionId) ==
  LET st == deleteSectionStatus(a, courseId, sectionId)
      t == DeleteSectionTxn(courseId, sectionId) IN
  /\ sections' = IF st = 200 THEN CommitSections(t) ELSE sections
  /\ modules' = IF st = 200 THEN CommitModules(t) ELSE modules
  /\ res' = Resp("deleteSection", st, <<>>)
  /\ UNCHANGED <<courses, nextCourseId, nextSectionId, nextModuleId, txn,
                 inflight,
                 users, nextUserId>>

\* the lists a reorder request can carry (sectionOrders / moduleOrders): a
\* set of ids, each with the order to write; the empty list included.  The
\* route validates the path only, the orders here are the ones the schema's
\* validator (min: 1) accepts.
ReorderLists(idSet) ==
  UNION {[ids -> Orders] : ids \in SUBSET idSet}

reorderSectionsStatus(a, courseId, list) ==
  IF a.role # "instructor" THEN 403
  ELSE IF OwnedCourse(courseId, a.id) = {} THEN 404
  ELSE IF DOMAIN list = {} THEN 400
  ELSE IF \E id \in DOMAIN list : ScopedSection(courseId, id) = {} THEN 404
  ELSE 200

\* sectionOrders.map(... Section.findOneAndUpdate({ _id, courseId }, { order }))
ReorderedSections(courseId, list) ==
  {IF s.id \in DOMAIN list /\ s.courseId = courseId
   THEN [s EXCEPT !.order = list[s.id]] ELSE s : s \in sections}

reorderSections(a, courseId, list) ==
  LET st == reorderSectionsStatus(a, courseId, list)
      authorised == a.role = "instructor" /\ OwnedCourse(courseId, a.id) # {} IN
  /\ sections' = IF authorised THEN ReorderedSections(courseId, list)
                 ELSE sections
  /\ res' = Resp("reorderSections", st, <<>>)
  /\ UNCHANGED <<courses, modules, nextCourseId, nextSectionId, nextModuleId,
                 txn, inflight,
                 users, nextUserId>>

\* ---- module handlers (courseController.ts, second half) ------------------

\* role check, Section.findById, Course.findOne of every module write handler:
\* 0 when the request may go on
ModuleAuthStatus(a, sectionId) ==
  IF a.role # "instructor" THEN 403
  ELSE IF SectionById(sectionId) = {} THEN 404
  ELSE IF SectionCourseOwned(sectionId, a.id) = {} THEN 403
  ELSE 0

createModuleStatus(a, sectionId, order) ==
  IF ModuleAuthStatus(a, sectionId) # 0 THEN ModuleAuthStatus(a, sectionId)
  ELSE IF ExistingModule(sectionId, order) # {} THEN 400
  ELSE 201

\* new Module({ sectionId, ..., order })
NewModule(sectionId, order) ==
  [id |-> nextModuleId, sectionId |-> sectionId, order |-> order]

createModule(a, sectionId, order) ==
  LET st == createModuleStatus(a, sectionId, order) IN
  /\ st = 201 => nextModuleId <= MaxModules
  /\ modules' = IF st = 201 THEN modules \cup {NewModule(sectionId, order)}
                ELSE modules
  /\ nextModuleId' = IF st = 201 THEN nextModuleId + 1 ELSE nextModuleId
  /\ res' = Resp("createModule", st, <<>>)
  /\ UNCHANGED <<courses, sections, nextCourseId, nextSectionId, txn, inflight,
                 users, nextUserId>>

\* getModules without its Section.findById guard
getModulesNoSectionCheck(sectionId) ==
  Resp("getModules", 200, SortByOrder(ModulesOfSection(sectionId)))

getModulesResp(sectionId) ==
  IF SectionById(sectionId) = {}
  THEN Resp("getModules", 404, <<>>)
  ELSE Resp("getModules", 200, SortByOrder(ModulesOfSection(sectionId)))

getModules(sectionId) ==
  /\ res' = getModulesResp(sectionId)
  /\ UNCHANGED <<courses, sections, modules, nextCourseId, nextSectionId,
                 nextModuleId, txn, inflight,
                 users, nextUserId>>

getModuleResp(sectionId, moduleId) ==
  IF ScopedModule(sectionId, moduleId) = {}
  THEN Resp("getModule", 404, <<>>)
  ELSE Resp("getModule", 200,
            <<CHOOSE m \in ScopedModule(sectionId, moduleId) : TRUE>>)

getModule(sectionId, moduleId) ==
  /\ res' = getModuleResp(sectionId, moduleId)
  /\ UNCHANGED <<courses, sections, modules, nextCourseId, nextSectionId,
                 nextModuleId, txn, inflight,
                 users, nextUserId>>

updateModuleStatus(a, sectionId, moduleId, order) ==
  IF ModuleAuthStatus(a, sectionId) # 0 THEN ModuleAuthStatus(a, sectionId)
  ELSE IF order # NoOrder /\ OtherModuleWithOrder(sectionId, order, moduleId) # {}
       THEN 400
  ELSE IF ScopedModule(sectionId, moduleId) = {} THEN 404
  ELSE 200

updateModule(a, sectionId, moduleId, order) ==
  LET st == updateModuleStatus(a, sectionId, moduleId, order) IN
  /\ modules' = IF st = 200
                THEN {IF m \in ScopedModule(sectionId, moduleId)
                      THEN ApplyOrder(m, order) ELSE m : m \in modules}
                ELSE modules
  /\ res' = Resp("updateModule", st, <<>>)
  /\ UNCHANGED <<courses, sections, nextCourseId, nextSectionId, nextModuleId,
                 txn, inflight,
                 users, nextUserId>>

deleteModuleStatus(a, sectionId, moduleId) ==
  IF ModuleAuthStatus(a, sectionId) # 0 THEN ModuleAuthStatus(a, sectionId)
  ELSE IF ScopedModule(sectionId, moduleId) = {} THEN 404
  ELSE 200

deleteModule(a, sectionId, moduleId) ==
  LET st == deleteModuleStatus(a, sectionId, moduleId) IN
  /\ modules' = IF st = 200 THEN modules \ ScopedModule(sectionId, moduleId)
                ELSE modules
  /\ res' = Resp("deleteModule", st, <<>>)
  /\ UNCHANGED <<courses, sections, nextCourseId, nextSectionId, nextModuleId,
                 txn, inflight,
                 users, nextUserId>>

reorderModulesStatus(a, sectionId, list) ==
  IF ModuleAuthStatus(a, sectionId) # 0 THEN ModuleAuthStatus(a, sectionId)
  ELSE IF DOMAIN list = {} THEN 400
  ELSE IF \E id \in DOMAIN list : ScopedModule(sectionId, id) = {} THEN 404
  ELSE 200

\* moduleOrders.map(... Module.findOneAndUpdate({ _id, sectionId }, { order }))
ReorderedModules(sectionId, list) ==
  {IF m.id \in DOMAIN list /\ m.sectionId = sectionId
   THEN [m EXCEPT !.order = list[m.id]] ELSE m : m \in modules}

reorderModules(a, sectionId, list) ==
  LET st == reorderModulesStatus(a, sectionId, list) IN
  /\ modules' = IF ModuleAuthStatus(a, sectionId) = 0
                THEN ReorderedModules(sectionId, list) ELSE modules
  /\ res' = Resp("reorderModules", st, <<>>)
  /\ UNCHANGED <<courses, sections, nextCourseId, nextSectionId, nextModuleId,
                 txn, inflight,
                 users, nextUserId>>

\* ---- course handlers (courseController.ts, first half) -------------------

\* a course created already published
NewCoursePublished(a, title, price) ==
  [id |-> nextCourseId, instructorId |-> a.id, title |-> title,
   price |-> price, status |-> "published", rating |-> 0,
   enrollmentCount |-> 0]

\* new Course({ title, ..., instructorId }) with the schema's defaults
NewCourse(a, title, price) ==
  [id |-> nextCourseId, instructorId |-> a.id, title |-> title,
   price |-> price, status |-> "draft", rating |-> 0, enrollmentCount |-> 0]

createCourse(a, title, price) ==
  LET st == IF a.role # "instructor" THEN 403 ELSE 201 IN
  /\ st = 201 => nextCourseId <= MaxCourses
  /\ courses' = IF st = 201 THEN courses \cup {NewCourse(a, title, price)} ELSE courses
  /\ nextCourseId' = IF st = 201 THEN nextCourseId + 1 ELSE nextCourseId
  /\ res' = Resp("createCourse", st, <<>>)
  /\ UNCHANGED <<sections, modules, nextSectionId, nextModuleId, txn, inflight,
                 users, nextUserId>>

\* findById without the ownership test
CourseOwnerStatusNoOwnerCheck(a, id) ==
  IF CourseById(id) = {} THEN 404 ELSE 0

\* findById, then the ownership test of updateCourse / deleteCourse /
\* toggleCourseStatus: 0 when the request may go on
CourseOwnerStatus(a, id) ==
  IF CourseById(id) = {} THEN 404
  ELSE IF \E c \in CourseById(id) : c.instructorId # a.id THEN 403
  ELSE 0

\* deleteCourse without the test of enrollmentCount
deleteCourseStatusNoEnrollmentCheck(a, id) ==
  IF CourseOwnerStatus(a, id) # 0 THEN CourseOwnerStatus(a, id) ELSE 200

deleteCourseStatus(a, id) ==
  IF CourseOwnerStatus(a, id) # 0 THEN CourseOwnerStatus(a, id)
  ELSE IF \E c \in CourseById(id) : c.enrollmentCount > 0 THEN 400
  ELSE 200

deleteCourse(a, id) ==
  LET st == deleteCourseStatus(a, id) IN
  /\ courses' = IF st = 200 THEN courses \ CourseById(id) ELSE courses
  /\ res' = Resp("deleteCourse", st, <<>>)
  /\ UNCHANGED <<sections, modules, nextCourseId, nextSectionId, nextModuleId,
                 txn, inflight,
                 users, nextUserId>>

\* ---- Spec: the content handlers, one request at a time -------------------

Next ==
  \/ \E a \in Actors : createCourse(a, "t1", 0)
  \/ \E a \in Actors, c \in CourseIds, o \in Orders : createSection(a, c, o)
  \/ \E c \in CourseIds, s \in SectionIds : getSection(c, s)
  \/ \E a \in Actors, c \in CourseIds, s \in SectionIds,
        o \in Orders \cup {NoOrder} : updateSection(a, c, s, o)
  \/ \E a \in Actors, c \in CourseIds, s \in SectionIds : deleteSection(a, c, s)
  \/ \E a \in Actors, c \in CourseIds, l \in ReorderLists(SectionIds) :
        reorderSections(a, c, l)
  \/ \E a \in Actors, s \in SectionIds, o \in Orders : createModule(a, s, o)
  \/ \E s \in SectionIds : getModules(s)
  \/ \E s \in SectionIds, m \in ModuleIds : getModule(s, m)
  \/ \E a \in Actors, s \in SectionIds, m \in ModuleIds,
        o \in Orders \cup {NoOrder} : updateModule(a, s, m, o)
  \/ \E a \in Actors, s \in SectionIds, m \in ModuleIds : deleteModule(a, s, m)
  \/ \E a \in Actors, s \in SectionIds, l \in ReorderLists(ModuleIds) :
        reorderModules(a, s, l)

Spec == Init /\ [][Next]_vars

\* ---- SpecCourse: the course handlers, one request at a time --------------

\* the bodies updateCourse can receive: an optional title and an optional
\* instructorId, the other fields absent
CoursePatches ==
  [title : Titles \cup {NoTitle}, instructorId : InstructorIds \cup {NoInstructor},
   status : {NoStatus}, rating : {NoNumber}, enrollmentCount : {NoNumber}]

\* the patch passed on with its instructorId
KeepInstructor(patch) == patch

\* delete updates.instructorId
StripInstructor(patch) == [patch EXCEPT !.instructorId = NoInstructor]

\* Course.findByIdAndUpdate(id, updates): the document after the patch
ApplyCoursePatch(c, patch) ==
  [c EXCEPT !.title = IF patch.title = NoTitle THEN @ ELSE patch.title,
            !.instructorId = IF patch.instructorId = NoInstructor THEN @
                             ELSE patch.instructorId,
            !.status = IF patch.status = NoStatus THEN @ ELSE patch.status,
            !.rating = IF patch.rating = NoNumber THEN @ ELSE patch.rating,
            !.enrollmentCount = IF patch.enrollmentCount = NoNumber THEN @
                                ELSE patch.enrollmentCount]

updateCourse(a, id, patch) ==
  LET st == IF CourseOwnerStatus(a, id) # 0 THEN CourseOwnerStatus(a, id) ELSE 200 IN
  /\ courses' = IF st = 200
                THEN {IF c.id = id THEN ApplyCoursePatch(c, StripInstructor(patch))
                      ELSE c : c \in courses}
                ELSE courses
  /\ res' = Resp("updateCourse", st, <<>>)
  /\ UNCHANGED <<sections, modules, nextCourseId, nextSectionId, nextModuleId,
                 txn, inflight,
                 users, nextUserId>>

\* the status written without the test of its value
toggleCourseStatusStatusNoEnumCheck(a, id, status) ==
  IF CourseOwnerStatus(a, id) # 0 THEN CourseOwnerStatus(a, id) ELSE 200

\* the includes() test on the body's status, then findById and the
\* ownership test
toggleCourseStatusStatus(a, id, status) ==
  IF status \notin {"published", "unpublished", "draft"} THEN 400
  ELSE IF CourseOwnerStatus(a, id) # 0 THEN CourseOwnerStatus(a, id)
  ELSE 200

toggleCourseStatus(a, id, status) ==
  LET st == toggleCourseStatusStatus(a, id, status) IN
  /\ courses' = IF st = 200
                THEN {IF c.id = id THEN [c EXCEPT !.status = status] ELSE c :
                      c \in courses}
                ELSE courses
  /\ res' = Resp("toggleCourseStatus", st, <<>>)
  /\ UNCHANGED <<sections, modules, nextCourseId, nextSectionId, nextModuleId,
                 txn, inflight,
                 users, nextUserId>>

NextCourse ==
  \/ \E a \in Actors, t \in Titles : createCourse(a, t, 0)
  \/ \E a \in Actors, id \in CourseIds, p \in CoursePatches : updateCourse(a, id, p)
  \/ \E a \in Actors, id \in CourseIds, st \in Statuses \cup {"archived"} :
        toggleCourseStatus(a, id, st)
  \/ \E a \in Actors, id \in CourseIds : deleteCourse(a, id)

SpecCourse == Init /\ [][NextCourse]_vars

\* ---- SpecApi: the course routes with their validation --------------------

\* the JSON bodies a client can send to PUT /api/courses/:id: any of these
\* keys present or absent
CourseBodies ==
  [title : {NoTitle, "t2"}, instructorId : {NoInstructor, "u2"},
   status : {NoStatus, "published"}, rating : {NoNumber, 5},
   enrollmentCount : {NoNumber, 1}]

\* a schema that lets every key of the body through
updateCourseSchemaPassthrough(body) == body

\* req.body = updateCourseSchema.body.parse(req.body): z.object keeps the
\* keys it declares (title, description, category, level, price, duration)
\* and drops the others
updateCourseSchemaParse(body) ==
  [body EXCEPT !.instructorId = NoInstructor, !.status = NoStatus,
               !.rating = NoNumber, !.enrollmentCount = NoNumber]

\* router.put('/:id', authenticate, validateRequest(...), updateCourse)
putCourse(a, id, body) == updateCourse(a, id, updateCourseSchemaParse(body))

NextApi ==
  \/ \E a \in Actors : createCourse(a, "t1", 0)
  \/ \E a \in Actors, id \in CourseIds, b \in CourseBodies : putCourse(a, id, b)
  \/ \E a \in Actors, id \in CourseIds, st \in Statuses :
        toggleCourseStatus(a, id, st)
  \/ \E a \in Actors, id \in CourseIds : deleteCourse(a, id)

SpecApi == Init /\ [][NextApi]_vars

\* ---- SpecUpd: updateCourse's awaits among deleteCourse requests -----------

\* updateCourse up to and including the ownership test and
\* `delete updates.instructorId`
updateCourseCheck(r, a, id, patch) ==
  LET st == CourseOwnerStatus(a, id) IN
  /\ inflight[r].op = "idle"
  /\ \A q \in Slots : q < r => inflight[q].op # "idle"
  /\ inflight' = IF st = 0
                 THEN [inflight EXCEPT ![r] = [op |-> "updateCourse", id |-> id,
                                               patch |-> StripInstructor(patch)]]
                 ELSE inflight
  /\ res' = IF st = 0 THEN res ELSE Resp("updateCourse", st, <<>>)
  /\ UNCHANGED <<courses, sections, modules, nextCourseId, nextSectionId,
                 nextModuleId, txn, users, nextUserId>>

\* updateCourse from `await Course.findByIdAndUpdate(id, updates)` on: the
\* result is null when no course has the id, and is sent as data with 200
updateCourseWrite(r) ==
  LET q == inflight[r] IN
  /\ q.op = "updateCourse"
  /\ courses' = {IF c.id = q.id THEN ApplyCoursePatch(c, q.patch) ELSE c :
                   c \in courses}
  /\ res' = Resp("updateCourse", 200,
                 IF CourseById(q.id) = {} THEN <<"null">> ELSE <<"course">>)
  /\ inflight' = [inflight EXCEPT ![r] = IdleSlot]
  /\ UNCHANGED <<sections, modules, nextCourseId, nextSectionId, nextModuleId,
                 txn, users, nextUserId>>

NextUpd ==
  \/ \E a \in Actors : createCourse(a, "t1", 0)
  \/ \E r \in Slots, a \in Actors, id \in CourseIds, p \in CoursePatches :
        updateCourseCheck(r, a, id, p)
  \/ \E r \in Slots : updateCourseWrite(r)
  \/ \E a \in Actors, id \in CourseIds : deleteCourse(a, id)

SpecUpd == Init /\ [][NextUpd]_vars

\* ---- SpecEnroll: deleting and aggregating courses that have enrollments ---

\* enrollmentCount is a field of the Course document that no handler of the
\* controllers writes; it is written in the store from outside them, one
\* enrollment at a time
enroll(id) ==
  /\ \E c \in CourseById(id) : c.enrollmentCount < MaxEnrollments
  /\ courses' = {IF c.id = id THEN [c EXCEPT !.enrollmentCount = @ + 1] ELSE c :
                  c \in courses}
  /\ UNCHANGED <<sections, modules, nextCourseId, nextSectionId, nextModuleId,
                 res, txn, inflight, users, nextUserId>>

\* the instructorId field as stored: Schema.Types.ObjectId
BsonObjectId(x) == <<"ObjectId", x>>

\* req.user.id as the handlers receive it: a string
BsonString(x) == <<"string", x>>

\* { $match: { instructorId: instructorId } }: the pipeline is sent as
\* written, the string is compared with the stored ObjectId
StatsMatch(a) ==
  {c \in courses : BsonObjectId(c.instructorId) = BsonString(a.id)}

RECURSIVE SumEnrollments(_)
\* { $sum: '$enrollmentCount' }
SumEnrollments(S) ==
  IF S = {} THEN 0
  ELSE LET c == CHOOSE x \in S : TRUE IN
       c.enrollmentCount + SumEnrollments(S \ {c})

RECURSIVE SumRevenue(_)
\* { $sum: { $multiply: ['$price', '$enrollmentCount'] } }
SumRevenue(S) ==
  IF S = {} THEN 0
  ELSE LET c == CHOOSE x \in S : TRUE IN
       c.price * c.enrollmentCount + SumRevenue(S \ {c})

\* the $group stage over the matched courses; stats[0] || { all zero } gives
\* the same record when nothing matched
CourseStats(S) ==
  [totalCourses |-> Cardinality(S),
   publishedCourses |-> Cardinality({c \in S : c.status = "published"}),
   draftCourses |-> Cardinality({c \in S : c.status = "draft"}),
   totalEnrollments |-> SumEnrollments(S),
   totalRevenue |-> SumRevenue(S)]

getCourseStatsResp(a) == Resp("getCourseStats", 200, <<CourseStats(StatsMatch(a))>>)

getCourseStats(a) ==
  /\ res' = getCourseStatsResp(a)
  /\ UNCHANGED <<courses, sections, modules, nextCourseId, nextSectionId,
                 nextModuleId, txn, inflight, users, nextUserId>>

NextEnroll ==
  \/ \E a \in Actors, p \in Prices : createCourse(a, "t1", p)
  \/ \E a \in Actors, id \in CourseIds, st \in Statuses :
        toggleCourseStatus(a, id, st)
  \/ \E id \in CourseIds : enroll(id)
  \/ \E a \in Actors, id \in CourseIds : deleteCourse(a, id)
  \/ \E a \in Actors : getCourseStats(a)

SpecEnroll == Init /\ [][NextEnroll]_vars

\* ---- SpecList: the public course listing ---------------------------------

\* the status of the query used as written, absent or not
StatusNoDefault(status) == status

\* const { ..., status = 'published', ... } = req.query
StatusDefault(status) == IF status = NoStatus THEN "published" ELSE status

\* if (status) filter.status = status; Course.find(filter)
CourseFilter(status) ==
  IF StatusDefault(status) = NoStatus THEN courses
  ELSE {c \in courses : c.status = StatusDefault(status)}

RECURSIVE SortByCreatedAt(_, _)
\* .sort({ createdAt: -1 | 1 }): ids are handed out in creation order
SortByCreatedAt(S, sortOrder) ==
  IF S = {} THEN <<>>
  ELSE LET c == IF sortOrder = "desc"
                THEN CHOOSE x \in S : \A y \in S : y.id <= x.id
                ELSE CHOOSE x \in S : \A y \in S : x.id <= y.id
       IN <<c>> \o SortByCreatedAt(S \ {c}, sortOrder)

\* .skip(skip).limit(limitNum)
SkipLimit(seq, skip, limit) ==
  SubSeq(seq, skip + 1, IF skip + limit < Len(seq) THEN skip + limit ELSE Len(seq))

\* total / limitNum rounded down
TotalPagesFloor(total, limit) == total \div limit

\* Math.ceil(total / limitNum)
TotalPages(total, limit) == (total + limit - 1) \div limit

getCoursesResp(page, limit, status, sortOrder) ==
  LET skip == (page - 1) * limit
      found == SkipLimit(SortByCreatedAt(CourseFilter(status), sortOrder), skip, limit)
      total == Cardinality(CourseFilter(status))
      totalPages == TotalPages(total, limit)
  IN Resp("getCourses", 200,
          <<[courses |-> found,
             pagination |-> [currentPage |-> page,
                             totalPages |-> totalPages,
                             totalCourses |-> total,
                             hasNextPage |-> page < totalPages,
                             hasPrevPage |-> page > 1]]>>)

getCourses(page, limit, status, sortOrder) ==
  /\ res' = getCoursesResp(page, limit, status, sortOrder)
  /\ UNCHANGED <<courses, sections, modules, nextCourseId, nextSectionId,
                 nextModuleId, txn, inflight, users, nextUserId>>

NextList ==
  \/ \E a \in Actors : createCourse(a, "t1", 0)
  \/ \E a \in Actors, id \in CourseIds, st \in Statuses :
        toggleCourseStatus(a, id, st)
  \/ \E page \in Pages, limit \in Limits, st \in Statuses \cup {NoStatus},
        so \in SortOrders : getCourses(page, limit, st, so)

SpecList == Init /\ [][NextList]_vars

\* ---- SpecConc: requests that interleave at their awaits ------------------

\* the index declared with { unique: true }
SectionIndexDeclaredUnique == TRUE

\* SectionSchema.index({ courseId: 1, order: 1 }): declared without
\* { unique: true }
SectionIndexUnique == FALSE

\* ModuleSchema.index({ sectionId: 1, order: 1 }): declared without
\* { unique: true }
ModuleIndexUnique == FALSE

\* a request takes the lowest free slot
FreeSlot(r) ==
  /\ inflight[r].op = "idle"
  /\ \A q \in Slots : q < r => inflight[q].op # "idle"

\* createSection up to and including `await Section.findOne({ courseId, order })`
createSectionCheck(r, a, courseId, order) ==
  LET st == createSectionStatus(a, courseId, order) IN
  /\ FreeSlot(r)
  /\ inflight' = IF st = 201
                 THEN [inflight EXCEPT ![r] = [op |-> "createSection",
                                               parent |-> courseId, order |-> order]]
                 ELSE inflight
  /\ res' = IF st = 201 THEN res ELSE Resp("createSection", st, <<>>)
  /\ UNCHANGED <<courses, sections, modules, nextCourseId, nextSectionId,
                 nextModuleId, txn,
                 users, nextUserId>>

\* the insert of section.save(): rejected (duplicate key) only by a unique index
SectionInsertRejected(courseId, order) ==
  SectionIndexUnique /\ ExistingSection(courseId, order) # {}

\* createSection from `await section.save()` on
createSectionSave(r) ==
  LET q == inflight[r]
      rejected == SectionInsertRejected(q.parent, q.order) IN
  /\ q.op = "createSection"
  /\ ~rejected => nextSectionId <= MaxSections
  /\ sections' = IF rejected THEN sections
                 ELSE sections \cup {NewSection(q.parent, q.order)}
  /\ nextSectionId' = IF rejected THEN nextSectionId ELSE nextSectionId + 1
  /\ res' = Resp("createSection", IF rejected THEN 500 ELSE 201, <<>>)
  /\ inflight' = [inflight EXCEPT ![r] = IdleSlot]
  /\ UNCHANGED <<courses, modules, nextCourseId, nextModuleId, txn,
                 users, nextUserId>>

\* createModule up to and including `await Module.findOne({ sectionId, order })`
createModuleCheck(r, a, sectionId, order) ==
  LET st == createModuleStatus(a, sectionId, order) IN
  /\ FreeSlot(r)
  /\ inflight' = IF st = 201
                 THEN [inflight EXCEPT ![r] = [op |-> "createModule",
                                               parent |-> sectionId, order |-> order]]
                 ELSE inflight
  /\ res' = IF st = 201 THEN res ELSE Resp("createModule", st, <<>>)
  /\ UNCHANGED <<courses, sections, modules, nextCourseId, nextSectionId,
                 nextModuleId, txn,
                 users, nextUserId>>

\* the insert of module.save(): rejected (duplicate key) only by a unique index
ModuleInsertRejected(sectionId, order) ==
  ModuleIndexUnique /\ ExistingModule(sectionId, order) # {}

\* createModule from `await module.save()` on
createModuleSave(r) ==
  LET q == inflight[r]
      rejected == ModuleInsertRejected(q.parent, q.order) IN
  /\ q.op = "createModule"
  /\ ~rejected => nextModuleId <= MaxModules
  /\ modules' = IF rejected THEN modules
                ELSE modules \cup {NewModule(q.parent, q.order)}
  /\ nextModuleId' = IF rejected THEN nextModuleId ELSE nextModuleId + 1
  /\ res' = Resp("createModule", IF rejected THEN 500 ELSE 201, <<>>)
  /\ inflight' = [inflight EXCEPT ![r] = IdleSlot]
  /\ UNCHANGED <<courses, sections, nextCourseId, nextSectionId, txn,
                 users, nextUserId>>

\* deleteSection up to session.startTransaction()
deleteSectionStart(a, courseId, sectionId) ==
  LET st == IF a.role # "instructor" THEN 403
            ELSE IF OwnedCourse(courseId, a.id) = {} THEN 404 ELSE 0 IN
  /\ txn.pc = "idle"
  /\ txn' = IF st = 0
            THEN [pc |-> "started", courseId |-> courseId,
                  sectionId |-> sectionId, snapshot |-> {}]
            ELSE txn
  /\ res' = IF st = 0 THEN res ELSE Resp("deleteSection", st, <<>>)
  /\ UNCHANGED <<courses, sections, modules, nextCourseId, nextSectionId,
                 nextModuleId, inflight,
                 users, nextUserId>>

\* Section.findOneAndDelete({ _id, courseId }).session(session): the first
\* operation of the transaction fixes what it reads; the delete is staged.
\* No section: abortTransaction and 404.
deleteSectionFindOneAndDelete ==
  LET found == ScopedSection(txn.courseId, txn.sectionId) # {} IN
  /\ txn.pc = "started"
  /\ txn' = IF found
            THEN [txn EXCEPT !.pc = "sectionDeleted",
                             !.snapshot = Ids(ModulesOfSection(txn.sectionId))]
            ELSE IdleTxn
  /\ res' = IF found THEN res ELSE Resp("deleteSection", 404, <<>>)
  /\ UNCHANGED <<courses, sections, modules, nextCourseId, nextSectionId,
                 nextModuleId, inflight,
                 users, nextUserId>>

\* deleteMany({ sectionId }).session(session): the deletes are staged
deleteSectionDeleteMany ==
  /\ txn.pc = "sectionDeleted"
  /\ txn' = [txn EXCEPT !.pc = "modulesDeleted"]
  /\ UNCHANGED <<courses, sections, modules, nextCourseId, nextSectionId,
                 nextModuleId, res, inflight,
                 users, nextUserId>>

\* session.commitTransaction(): both staged deletes become visible at once
deleteSectionCommit ==
  /\ txn.pc = "modulesDeleted"
  /\ sections' = CommitSections(txn)
  /\ modules' = CommitModules(txn)
  /\ txn' = IdleTxn
  /\ res' = Resp("deleteSection", 200, <<>>)
  /\ UNCHANGED <<courses, nextCourseId, nextSectionId, nextModuleId, inflight,
                 users, nextUserId>>

\* findOneAndDelete run outside the session: the delete is not rolled back
AbortSectionsNoSession(t) ==
  IF t.pc \in {"sectionDeleted", "modulesDeleted"}
  THEN {s \in sections : s.id # t.sectionId} ELSE sections

\* what the store keeps of the staged deletes when the transaction is aborted
AbortSections(t) == sections

AbortModules(t) == modules

\* a store operation of the transaction throws: the inner catch runs
\* session.abortTransaction() and rethrows, the outer catch answers 500
deleteSectionFail ==
  /\ txn.pc \in {"started", "sectionDeleted", "modulesDeleted"}
  /\ sections' = AbortSections(txn)
  /\ modules' = AbortModules(txn)
  /\ txn' = IdleTxn
  /\ res' = Resp("deleteSection", 500, <<>>)
  /\ UNCHANGED <<courses, nextCourseId, nextSectionId, nextModuleId, inflight,
                 users, nextUserId>>

NextConc ==
  \/ \E a \in Actors : createCourse(a, "t1", 0)
  \/ \E r \in Slots, a \in Actors, c \in CourseIds, o \in Orders :
        createSectionCheck(r, a, c, o)
  \/ \E r \in Slots : createSectionSave(r)
  \/ \E r \in Slots, a \in Actors, s \in SectionIds, o \in Orders :
        createModuleCheck(r, a, s, o)
  \/ \E r \in Slots : createModuleSave(r)

SpecConc == Init /\ [][NextConc]_vars

\* ---- SpecTxn: deleteSection's transaction among other requests -----------

NextTxn ==
  \/ \E a \in Actors : createCourse(a, "t1", 0)
  \/ \E a \in Actors, c \in CourseIds, o \in Orders : createSection(a, c, o)
  \/ \E a \in Actors, s \in SectionIds, o \in Orders : createModule(a, s, o)
  \/ \E a \in Actors, c \in CourseIds, s \in SectionIds : deleteSectionStart(a, c, s)
  \/ deleteSectionFindOneAndDelete
  \/ deleteSectionDeleteMany
  \/ deleteSectionCommit
  \/ deleteSectionFail

SpecTxn == Init /\ [][NextTxn]_vars

\* ---- SpecReorder: reorderSections requests interleaved at their awaits ----

\* reorderSections up to the Array.isArray test; the slot keeps the request
\* and, once it has answered, its status
reorderSectionsCheck(r, a, courseId, list) ==
  LET st == IF a.role # "instructor" THEN 403
            ELSE IF OwnedCourse(courseId, a.id) = {} THEN 404
            ELSE IF DOMAIN list = {} THEN 400
            ELSE 0 IN
  /\ FreeSlot(r)
  /\ inflight' = [inflight EXCEPT ![r] =
                    [op |-> "reorderSections",
                     pc |-> IF st = 0 THEN "updating" ELSE "done",
                     courseId |-> courseId, list |-> list,
                     pending |-> IF st = 0 THEN DOMAIN list ELSE {},
                     missing |-> FALSE, status |-> st]]
  /\ res' = IF st = 0 THEN res ELSE Resp("reorderSections", st, <<>>)
  /\ UNCHANGED <<courses, sections, modules, nextCourseId, nextSectionId,
                 nextModuleId, txn, users, nextUserId>>

\* one Section.findOneAndUpdate({ _id: sectionId, courseId }, { order }) of
\* updatePromises: the store runs them one by one, in any order
reorderSectionsUpdate(r, id) ==
  LET q == inflight[r] IN
  /\ q.op = "reorderSections"
  /\ q.pc = "updating"
  /\ id \in q.pending
  /\ sections' = {IF s.id = id /\ s.courseId = q.courseId
                  THEN [s EXCEPT !.order = q.list[id]] ELSE s : s \in sections}
  /\ inflight' = [inflight EXCEPT
                    ![r].pending = @ \ {id},
                    ![r].missing = @ \/ ScopedSection(q.courseId, id) = {}]
  /\ UNCHANGED <<courses, modules, nextCourseId, nextSectionId, nextModuleId,
                 res, txn, users, nextUserId>>

\* reorderSections from the resolution of Promise.all on
reorderSectionsRespond(r) ==
  LET q == inflight[r]
      st == IF q.missing THEN 404 ELSE 200 IN
  /\ q.op = "reorderSections"
  /\ q.pc = "updating"
  /\ q.pending = {}
  /\ inflight' = [inflight EXCEPT ![r].pc = "done", ![r].status = st]
  /\ res' = Resp("reorderSections", st, <<>>)
  /\ UNCHANGED <<courses, sections, modules, nextCourseId, nextSectionId,
                 nextModuleId, txn, users, nextUserId>>

\* the instructor whose courses are reordered
CourseOwner == [id |-> "u1", role |-> "instructor"]

NextReorder ==
  \/ createCourse(CourseOwner, "t1", 0)
  \/ \E c \in CourseIds, o \in Orders : createSection(CourseOwner, c, o)
  \/ \E r \in Slots, a \in Actors, c \in CourseIds,
        l \in ReorderLists(SectionIds) : reorderSectionsCheck(r, a, c, l)
  \/ \E r \in Slots, id \in SectionIds : reorderSectionsUpdate(r, id)
  \/ \E r \in Slots : reorderSectionsRespond(r)

SpecReorder == Init /\ [][NextReorder]_vars

\* ---- SpecRace: createModule's awaits among deleteSection's transaction ----

NextRace ==
  \/ \E a \in InstructorIds : createCourse([id |-> a, role |-> "instructor"], "t1", 0)
  \/ \E a \in Actors, c \in CourseIds : createSection(a, c, 1)
  \/ \E r \in Slots, a \in Actors, s \in SectionIds, o \in Orders :
        createModuleCheck(r, a, s, o)
  \/ \E r \in Slots : createModuleSave(r)
  \/ \E a \in Actors, c \in CourseIds, s \in SectionIds : deleteSectionStart(a, c, s)
  \/ deleteSectionFindOneAndDelete
  \/ deleteSectionDeleteMany
  \/ deleteSectionCommit
  \/ deleteSectionFail

SpecRace == Init /\ [][NextRace]_vars

\* ---- the catch blocks ------------------------------------------------------

\* error.message of what a store call can throw
StoreErrors ==
  {"E11000 duplicate key error collection: users index: email_1",
   "connection lost"}

\* the handlers of the auth controller: their catch blocks add
\* error: error.message to the response
AuthHandlers ==
  {"registerStudent", "registerInstructor", "login", "getProfile",
   "updateProfile", "changePassword", "logout"}

\* the message each handler's catch block answers with
CatchMessage ==
  [createCourse |-> "Failed to create course",
   getCourses |-> "Failed to retrieve courses",
   getInstructorCourses |-> "Failed to retrieve instructor courses",
   getCourse |-> "Failed to retrieve course",
   updateCourse |-> "Failed to update course",
   deleteCourse |-> "Failed to delete course",
   toggleCourseStatus |-> "Failed to update course status",
   getCourseStats |-> "Failed to retrieve course statistics",
   createModule |-> "Failed to create module",
   getModules |-> "Failed to retrieve modules",
   getModule |-> "Failed to retrieve module",
   updateModule |-> "Failed to update module",
   deleteModule |-> "Failed to delete module",
   reorderModules |-> "Failed to reorder modules",
   createSection |-> "Failed to create section",
   getSections |-> "Failed to retrieve sections",
   getSection |-> "Failed to retrieve section",
   updateSection |-> "Failed to update section",
   deleteSection |-> "Failed to delete section",
   reorderSections |-> "Failed to reorder sections",
   registerStudent |-> "Registration failed",
   registerInstructor |-> "Registration failed",
   login |-> "Login failed",
   getProfile |-> "Failed to retrieve profile",
   updateProfile |-> "Failed to update profile",
   changePassword |-> "Failed to change password",
   logout |-> "Logout failed"]

Handlers == DOMAIN CatchMessage

\* res.status(500).json({ success: false, message, [error: error.message] })
InternalError(op, err) ==
  Resp(op, 500,
       IF op \in AuthHandlers THEN <<CatchMessage[op], err>>
       ELSE <<CatchMessage[op]>>)

\* a store call of the handler throws before anything is written: the
\* handler's catch block answers
storeFails(op, err) ==
  /\ res' = InternalError(op, err)
  /\ UNCHANGED <<courses, sections, modules, nextCourseId, nextSectionId,
                 nextModuleId, txn, inflight, users, nextUserId>>

\* ---- SpecAuth: registration, login and password change -------------------

\* z.string().email().toLowerCase() of the registration and login schemas
toLowerCase(email) == IF email = "A@B.com" THEN "a@b.com" ELSE email

\* bcrypt.hash(password, saltRounds): the hash carries the salt drawn for it
hashPassword(password, salt) == <<"bcrypt", salt, password>>

\* bcrypt.compare(password, hash)
comparePassword(password, hash) == hash = hashPassword(password, hash[2])

\* a lookup that finds no user
ExistingUserNone(U, email) == {}

\* User.findOne({ email })
ExistingUser(U, email) == {u \in U : u.email = email}

\* a users collection without the unique index: every insert is accepted
UserInsertAccepted(email) == FALSE

\* the unique index on email (stored lowercase) refusing the insert
UserInsertRejected(email) == \E u \in users : u.email = toLowerCase(email)

registerStatus(email) ==
  IF ExistingUser(users, email) # {} THEN 409
  ELSE IF UserInsertRejected(email) THEN 500
  ELSE 201

\* new User({ email, password: hashedPassword, name, role })
NewUser(email, hash, role) ==
  [id |-> nextUserId, email |-> toLowerCase(email), password |-> hash,
   role |-> role]

\* the body of registerStudent and registerInstructor, which differ in the
\* role they store; rawEmail is the email as sent
register(op, role, rawEmail, password, salt) ==
  LET email == toLowerCase(rawEmail)
      st == registerStatus(email)
  IN /\ st = 201 => nextUserId <= MaxUsers
     /\ users' = IF st = 201
                 THEN users \cup {NewUser(email, hashPassword(password, salt), role)}
                 ELSE users
     /\ nextUserId' = IF st = 201 THEN nextUserId + 1 ELSE nextUserId
     /\ res' = Resp(op, st,
                    IF st = 409 THEN <<"User with this email already exists">>
                    ELSE IF st = 500
                      THEN InternalError(op,
                             "E11000 duplicate key error collection: users index: email_1").data
                    ELSE <<"registered">>)
     /\ UNCHANGED <<courses, sections, modules, nextCourseId, nextSectionId,
                    nextModuleId, txn, inflight>>

registerStudent(rawEmail, password, salt) ==
  register("registerStudent", "student", rawEmail, password, salt)

registerInstructor(rawEmail, password, salt) ==
  register("registerInstructor", "instructor", rawEmail, password, salt)

\* an unknown email answered as a missing user
loginUnknownEmailNotFound == Resp("login", 404, <<"User not found">>)

\* login's answer when findOne finds no user
loginUnknownEmail == Resp("login", 401, <<"Invalid email or password">>)

\* login's answer when comparePassword fails
loginWrongPassword == Resp("login", 401, <<"Invalid email or password">>)

\* login against the User collection U
loginIn(U, rawEmail, password) ==
  LET user == ExistingUser(U, toLowerCase(rawEmail)) IN
  IF user = {} THEN loginUnknownEmail
  ELSE IF \E u \in user : ~comparePassword(password, u.password)
       THEN loginWrongPassword
  ELSE Resp("login", 200, <<"Login successful">>)

loginResp(rawEmail, password) == loginIn(users, rawEmail, password)

login(rawEmail, password) ==
  /\ res' = loginResp(rawEmail, password)
  /\ UNCHANGED <<courses, sections, modules, nextCourseId, nextSectionId,
                 nextModuleId, txn, inflight, users, nextUserId>>

\* changePassword without the test of the current password
changePasswordStatusNoVerify(userId, currentPassword) ==
  IF {u \in users : u.id = userId} = {} THEN 404 ELSE 200

\* User.findById(userId), then comparePassword(currentPassword, user.password)
changePasswordStatus(userId, currentPassword) ==
  IF {u \in users : u.id = userId} = {} THEN 404
  ELSE IF \E u \in users :
            u.id = userId /\ ~comparePassword(currentPassword, u.password)
       THEN 400
  ELSE 200

changePassword(userId, currentPassword, newPassword, salt) ==
  LET st == changePasswordStatus(userId, currentPassword) IN
  /\ users' = IF st = 200
              THEN {IF u.id = userId
                    THEN [u EXCEPT !.password = hashPassword(newPassword, salt)]
                    ELSE u : u \in users}
              ELSE users
  /\ res' = Resp("changePassword", st,
                 IF st = 404 THEN <<"User not found">>
                 ELSE IF st = 400 THEN <<"Current password is incorrect">>
                 ELSE <<"Password changed successfully">>)
  /\ UNCHANGED <<courses, sections, modules, nextCourseId, nextSectionId,
                 nextModuleId, txn, inflight, nextUserId>>

NextAuth ==
  \/ \E e \in Emails, p \in Passwords, s \in Salts : registerStudent(e, p, s)
  \/ \E e \in Emails, p \in Passwords, s \in Salts : registerInstructor(e, p, s)
  \/ \E e \in Emails, p \in Passwords : login(e, p)
  \/ \E id \in UserIds, cur \in Passwords, new \in Passwords, s \in Salts :
        changePassword(id, cur, new, s)

SpecAuth == Init /\ [][NextAuth]_vars

\* ---- SpecReg: registrations interleaved at their awaits -------------------

RegisterOps == {"registerStudent", "registerInstructor"}

RegisterRole(op) == IF op = "registerStudent" THEN "student" ELSE "instructor"

\* a registration up to and including `await User.findOne({ email })`; the
\* slot keeps the request and, once it has answered, its status
registerCheck(r, op, rawEmail, password, salt) ==
  LET email == toLowerCase(rawEmail)
      found == ExistingUser(users, email) # {} IN
  /\ FreeSlot(r)
  /\ inflight' = [inflight EXCEPT ![r] =
                    [op |-> op, pc |-> IF found THEN "done" ELSE "save",
                     email |-> email, password |-> hashPassword(password, salt),
                     status |-> IF found THEN 409 ELSE 0]]
  /\ res' = IF found
            THEN Resp(op, 409, <<"User with this email already exists">>)
            ELSE res
  /\ UNCHANGED <<courses, sections, modules, nextCourseId, nextSectionId,
                 nextModuleId, txn, users, nextUserId>>

\* a registration from `await user.save()` on
registerSave(r) ==
  LET q == inflight[r]
      rejected == UserInsertRejected(q.email) IN
  /\ q.op \in RegisterOps
  /\ q.pc = "save"
  /\ ~rejected => nextUserId <= MaxUsers
  /\ users' = IF rejected THEN users
              ELSE users \cup {NewUser(q.email, q.password, RegisterRole(q.op))}
  /\ nextUserId' = IF rejected THEN nextUserId ELSE nextUserId + 1
  /\ res' = IF rejected
            THEN InternalError(q.op,
                   "E11000 duplicate key error collection: users index: email_1")
            ELSE Resp(q.op, 201, <<"registered">>)
  /\ inflight' = [inflight EXCEPT ![r].pc = "done",
                                  ![r].status = IF rejected THEN 500 ELSE 201]
  /\ UNCHANGED <<courses, sections, modules, nextCourseId, nextSectionId,
                 nextModuleId, txn>>

NextReg ==
  \/ \E r \in Slots, op \in RegisterOps, e \in Emails, p \in Passwords,
        s \in Salts : registerCheck(r, op, e, p, s)
  \/ \E r \in Slots : registerSave(r)

SpecReg == Init /\ [][NextReg]_vars

\* ---- SpecFail: requests during which the store fails ---------------------

NextFail ==
  \/ \E a \in Actors : createCourse(a, "t1", 0)
  \/ \E e \in Emails, p \in Passwords, s \in Salts : registerStudent(e, p, s)
  \/ \E e \in Emails, p \in Passwords : login(e, p)
  \/ \E op \in Handlers, err \in StoreErrors : storeFails(op, err)

SpecFail == Init /\ [][NextFail]_vars

\* ---- SpecCascade: deleting a course that has content ---------------------

NextCascade ==
  \/ \E a \in Actors : createCourse(a, "t1", 0)
  \/ \E a \in Actors, c \in CourseIds, o \in Orders : createSection(a, c, o)
  \/ \E a \in Actors, s \in SectionIds, o \in Orders : createModule(a, s, o)
  \/ \E a \in Actors, id \in CourseIds : deleteCourse(a, id)

SpecCascade == Init /\ [][NextCascade]_vars

\* ==== the claims ==========================================================

\* ids the store has handed out and holds no more: the deleted records
DeletedSectionIds == {sid \in SectionIds : sid < nextSectionId /\ SectionById(sid) = {}}

\* C1 (as claimed): no two distinct sections of a course share an order, and
\* no two distinct modules of a section share an order, after any sequence of
\* create, update and reorder requests.
C1_UniqueSiblingOrder ==
  /\ \A s1, s2 \in sections :
       (s1.id # s2.id /\ s1.courseId = s2.courseId) => s1.order # s2.order
  /\ \A m1, m2 \in modules :
       (m1.id # m2.id /\ m1.sectionId = m2.sectionId) => m1.order # m2.order

\* C2: deleteSection is all-or-nothing.  A section leaves the store only in
\* the commit step, together with every module its deleteMany matched and
\* with a 200 answer; a module leaves the store only together with its
\* section; and a transaction that ends in any other way (section not found,
\* a failing delete) leaves both collections as they were.
C2_AtomicDeleteSection ==
  [][ LET gone == {s \in sections : s.id \notin Ids(sections')} IN
      /\ gone # {} =>
           /\ txn.pc = "modulesDeleted"
           /\ gone = ScopedSection(txn.courseId, txn.sectionId)
           /\ Ids(modules') \cap txn.snapshot = {}
           /\ res'.op = "deleteSection" /\ res'.status = 200
      /\ (Ids(modules) \ Ids(modules') # {}) => gone # {}
      /\ (txn.pc # "idle" /\ txn'.pc = "idle" /\ res'.status # 200) =>
           (sections' = sections /\ modules' = modules)
    ]_vars

\* C2 witness: a transaction was aborted with 500 while a section with
\* modules is in the store, and section and modules are still there.
C2_AbortedWithModulesKept ==
  /\ res.op = "deleteSection" /\ res.status = 500
  /\ txn.pc = "idle"
  /\ \E s \in sections : ModulesOfSection(s.id) # {}

\* C3: a successful deleteSection removes the section and exactly the modules
\* whose sectionId is that section; all other modules, all other sections and
\* all courses are unchanged.
C3_DeleteSectionFrame ==
  [][ (res'.op = "deleteSection" /\ res'.status = 200) =>
        \E sid \in Ids(sections) :
          /\ sections' = {s \in sections : s.id # sid}
          /\ modules' = {m \in modules : m.sectionId # sid}
          /\ courses' = courses
    ]_vars

\* C3 witness: after a successful deleteSection a module of another section
\* is still stored while a module has been removed.
C3_OtherModulesKept ==
  /\ res.op = "deleteSection" /\ res.status = 200
  /\ modules # {}
  /\ Cardinality(modules) < nextModuleId - 1
  /\ DeletedSectionIds # {}

\* C4 (as claimed): for a deleted section S, getModules(S) answers with an
\* empty list and getSection(S) answers NotFound.
C4_DeletedSectionReadsEmpty ==
  \A sid \in DeletedSectionIds :
    /\ getModulesResp(sid).status = 200 /\ getModulesResp(sid).data = <<>>
    /\ \A c \in CourseIds : getSectionResp(c, sid).status = 404

\* C4 (amended): for a deleted section S, getModules(S) answers NotFound (404)
\* and carries no module, and getSection(S) answers NotFound for every course.
C4_DeletedSectionReadsNotFound ==
  \A sid \in DeletedSectionIds :
    /\ getModulesResp(sid).status = 404 /\ getModulesResp(sid).data = <<>>
    /\ \A c \in CourseIds : getSectionResp(c, sid).status = 404

\* C4 witness: getModules has answered 404 in a state where a section has
\* been deleted.
C4_ReadAfterDelete ==
  /\ res.op = "getModules" /\ res.status = 404
  /\ DeletedSectionIds # {}

\* the actor is an instructor and owns the course
Owns(a, courseId) ==
  /\ a.role = "instructor"
  /\ \E c \in courses : c.id = courseId /\ c.instructorId = a.id

\* the actor is an instructor and owns the course of the section
OwnsSection(a, sectionId) ==
  \E s \in sections : s.id = sectionId /\ Owns(a, s.courseId)

ContentUnchanged == sections' = sections /\ modules' = modules

\* C5 (as claimed): a reorder that answers NotFound has applied none of its
\* changes: every section and every module is as before the call.
C5_ReorderAllOrNothing ==
  [][ (res'.op \in {"reorderSections", "reorderModules"} /\ res'.status = 404)
        => ContentUnchanged ]_vars

\* C6 (as claimed): createSection / createModule by the owning instructor
\* with an order a sibling already holds answers Conflict (409), persists
\* nothing and leaves every stored section and module unchanged.
C6_CollisionConflict ==
  /\ \A a \in Actors, c \in CourseIds, o \in Orders :
       (Owns(a, c) /\ \E s \in sections : s.courseId = c /\ s.order = o) =>
         ~ENABLED (createSection(a, c, o) /\
                   ~(res'.status = 409 /\ ContentUnchanged
                     /\ nextSectionId' = nextSectionId))
  /\ \A a \in Actors, sid \in SectionIds, o \in Orders :
       (OwnsSection(a, sid) /\ \E m \in modules : m.sectionId = sid /\ m.order = o) =>
         ~ENABLED (createModule(a, sid, o) /\
                   ~(res'.status = 409 /\ ContentUnchanged
                     /\ nextModuleId' = nextModuleId))

\* C6 (amended): the same request answers 400, persists nothing and leaves
\* every stored section and module unchanged.
C6_CollisionRejected ==
  /\ \A a \in Actors, c \in CourseIds, o \in Orders :
       (Owns(a, c) /\ \E s \in sections : s.courseId = c /\ s.order = o) =>
         ~ENABLED (createSection(a, c, o) /\
                   ~(res'.status = 400 /\ ContentUnchanged
                     /\ nextSectionId' = nextSectionId))
  /\ \A a \in Actors, sid \in SectionIds, o \in Orders :
       (OwnsSection(a, sid) /\ \E m \in modules : m.sectionId = sid /\ m.order = o) =>
         ~ENABLED (createModule(a, sid, o) /\
                   ~(res'.status = 400 /\ ContentUnchanged
                     /\ nextModuleId' = nextModuleId))

\* C6 witness: a createSection has been rejected with 400 and the section
\* holding the order is stored.
C6_CreateRejected ==
  /\ res.op = "createSection" /\ res.status = 400
  /\ sections # {}

\* C7: no store-level constraint rejects a create's write.  Every save of a
\* request that passed its check persists a record with the requested parent
\* and order and answers 201, whatever was stored in between.
C7_SaveNeverRejected ==
  [][ \A r \in Slots :
        /\ (inflight[r].op = "createSection" /\ inflight'[r].op = "idle") =>
             /\ res'.status = 201
             /\ \E s \in sections' : /\ s.id \notin Ids(sections)
                                     /\ s.courseId = inflight[r].parent
                                     /\ s.order = inflight[r].order
        /\ (inflight[r].op = "createModule" /\ inflight'[r].op = "idle") =>
             /\ res'.status = 201
             /\ \E m \in modules' : /\ m.id \notin Ids(modules)
                                    /\ m.sectionId = inflight[r].parent
                                    /\ m.order = inflight[r].order
    ]_vars

\* C7 witness: two concurrent creates both passed the check and both wrote:
\* two sections of one course hold the same order, and the last save
\* answered 201.
C7_DuplicateOrderPersisted ==
  /\ res.op = "createSection" /\ res.status = 201
  /\ \E s1, s2 \in sections :
       s1.id # s2.id /\ s1.courseId = s2.courseId /\ s1.order = s2.order

\* a section or module differs between the two states of a step though the
\* actor does not own its course
ForeignTouch(a) ==
  \/ \E x \in (sections \ sections') \cup (sections' \ sections) :
       ~Owns(a, x.courseId)
  \/ \E m \in (modules \ modules') \cup (modules' \ modules) :
       ~OwnsSection(a, m.sectionId)

\* C8: whatever the path and body, no write handler creates, changes or
\* removes a section of a course the actor does not own as an instructor, or
\* a module of a section of such a course.
C8_OnlyOwnerWrites ==
  \A a \in Actors :
    /\ \A c \in CourseIds, o \in Orders :
         ~ENABLED (createSection(a, c, o) /\ ForeignTouch(a))
    /\ \A c \in CourseIds, sid \in SectionIds, o \in Orders \cup {NoOrder} :
         ~ENABLED (updateSection(a, c, sid, o) /\ ForeignTouch(a))
    /\ \A c \in CourseIds, sid \in SectionIds :
         ~ENABLED (deleteSection(a, c, sid) /\ ForeignTouch(a))
    /\ \A c \in CourseIds, l \in ReorderLists(SectionIds) :
         ~ENABLED (reorderSections(a, c, l) /\ ForeignTouch(a))
    /\ \A sid \in SectionIds, o \in Orders :
         ~ENABLED (createModule(a, sid, o) /\ ForeignTouch(a))
    /\ \A sid \in SectionIds, mid \in ModuleIds, o \in Orders \cup {NoOrder} :
         ~ENABLED (updateModule(a, sid, mid, o) /\ ForeignTouch(a))
    /\ \A sid \in SectionIds, mid \in ModuleIds :
         ~ENABLED (deleteModule(a, sid, mid) /\ ForeignTouch(a))
    /\ \A sid \in SectionIds, l \in ReorderLists(ModuleIds) :
         ~ENABLED (reorderModules(a, sid, l) /\ ForeignTouch(a))

\* C8 witness: two instructors each own a course with a section, one section
\* has a module, and a deleteModule has just been refused with 403.
C8_ForeignRequestRefused ==
  /\ res.op = "deleteModule" /\ res.status = 403
  /\ modules # {}
  /\ \E s1, s2 \in sections :
       \E c1, c2 \in courses :
         /\ c1.id = s1.courseId /\ c2.id = s2.courseId
         /\ c1.instructorId # c2.instructorId

\* C9: getSection answers 200 only with the section that has the stated id
\* and the stated courseId, and getModule only with the module that has the
\* stated id and the stated sectionId; an id stored under another parent gets
\* 404.
C9_ReadsScopedToParent ==
  /\ \A c \in CourseIds, sid \in SectionIds :
       LET r == getSectionResp(c, sid) IN
       /\ r.status = 200 =>
            (r.data[1].id = sid /\ r.data[1].courseId = c /\ r.data[1] \in sections)
       /\ (\E s \in sections : s.id = sid /\ s.courseId # c) => r.status = 404
  /\ \A sid \in SectionIds, mid \in ModuleIds :
       LET r == getModuleResp(sid, mid) IN
       /\ r.status = 200 =>
            (r.data[1].id = mid /\ r.data[1].sectionId = sid /\ r.data[1] \in modules)
       /\ (\E m \in modules : m.id = mid /\ m.sectionId # sid) => r.status = 404

\* C9 witness: getModule has answered 404 while a module is stored under one
\* section and a second section exists, under which that id is not found.
C9_CrossParentNotFound ==
  /\ res.op = "getModule" /\ res.status = 404
  /\ \E m \in modules : \E s \in sections :
       s.id # m.sectionId /\ getModuleResp(s.id, m.id).status = 404

\* C10: a course's instructorId is set to the creating actor's id and no
\* step changes it afterwards, whatever an updateCourse patch carries.
C10_InstructorImmutable ==
  [][ /\ \A c \in courses : \A d \in courses' :
           c.id = d.id => d.instructorId = c.instructorId
      /\ \A a \in Actors, t \in Titles :
           createCourse(a, t, 0) =>
             \A d \in courses' : d.id \notin Ids(courses) => d.instructorId = a.id
    ]_vars

\* C10 witness: an updateCourse has been applied and a published course
\* titled t2 is stored.
C10_CourseUpdated ==
  /\ res.op = "updateCourse" /\ res.status = 200
  /\ \E c \in courses : c.status = "published" /\ c.title = "t2"

\* C11: updateCourse answers 404 when no course has the id and 403 when the
\* course's instructorId is not the actor's id, and in both cases the Course
\* collection is left as it was.
C11_UpdateCourseRefused ==
  \A a \in Actors, id \in CourseIds, p \in CoursePatches :
    /\ (\A c \in courses : c.id # id) =>
         ~ENABLED (updateCourse(a, id, p) /\
                   ~(res'.status = 404 /\ courses' = courses))
    /\ (\E c \in courses : c.id = id /\ c.instructorId # a.id) =>
         ~ENABLED (updateCourse(a, id, p) /\
                   ~(res'.status = 403 /\ courses' = courses))

\* C11 witness: an updateCourse has been refused with 403 while a course is
\* stored and another id belongs to a course already deleted.
C11_UpdateForbidden ==
  /\ res.op = "updateCourse" /\ res.status = 403
  /\ courses # {}
  /\ \E id \in CourseIds : id < nextCourseId /\ (\A c \in courses : c.id # id)

\* C13: toggleCourseStatus answers 400 for a status outside draft /
\* published / unpublished and 403 for a valid status sent by an actor who is
\* not the course's instructor, the stored courses unchanged in both cases;
\* for the owner each of the three values gets 200 whatever the current
\* status, and the course then carries the requested status.
C13_StatusChange ==
  [][ res'.op = "toggleCourseStatus" =>
      (\A a \in Actors, id \in CourseIds,
          st \in {"draft", "published", "unpublished", "archived"} :
         toggleCourseStatus(a, id, st) =>
           /\ st = "archived" => (res'.status = 400 /\ courses' = courses)
           /\ (st # "archived" /\
               \E c \in courses : c.id = id /\ c.instructorId # a.id) =>
                (res'.status = 403 /\ courses' = courses)
           /\ (st # "archived" /\
               \E c \in courses : c.id = id /\ c.instructorId = a.id) =>
                /\ res'.status = 200
                /\ \E d \in courses' : d.id = id /\ d.status = st
                /\ \A d \in courses' : d.id # id => d \in courses)
    ]_vars

\* C13 witness: the owner's status change has been applied and a course
\* stands at unpublished.
C13_StatusApplied ==
  /\ res.op = "toggleCourseStatus" /\ res.status = 200
  /\ \E c \in courses : c.status = "unpublished"

\* C14: createCourse answers 403 and stores nothing unless the actor's role
\* is instructor; otherwise exactly one course is added, with the actor's id
\* as instructorId and status draft.
C14_CreateCourse ==
  [][ res'.op = "createCourse" =>
      (\A a \in Actors, t \in Titles :
         createCourse(a, t, 0) =>
           IF a.role # "instructor"
           THEN res'.status = 403 /\ courses' = courses
           ELSE /\ res'.status = 201
                /\ \E d \in courses' :
                     /\ d.id \notin {c.id : c \in courses}
                     /\ courses' = courses \cup {d}
                     /\ d.instructorId = a.id
                     /\ d.status = "draft")
    ]_vars

\* C14 witness: a student's createCourse has been refused while an
\* instructor's course is stored.
C14_StudentRefused ==
  /\ res.op = "createCourse" /\ res.status = 403
  /\ \E c \in courses : c.instructorId \in InstructorIds /\ c.status = "draft"

\* C12 as stated: the owner's deleteCourse answers 409 (Conflict) exactly
\* when the course's enrollmentCount is positive; a refused delete leaves the
\* course stored unchanged, and with enrollmentCount 0 the course is removed.
C12_DeleteConflict ==
  \A a \in Actors, c \in courses :
    c.instructorId = a.id =>
      ~ENABLED (deleteCourse(a, c.id) /\
                ~(/\ res'.status = 409 <=> c.enrollmentCount > 0
                  /\ c.enrollmentCount > 0 => courses' = courses
                  /\ c.enrollmentCount = 0 => courses' = courses \ {c}))

\* C12 amended: the owner's deleteCourse answers 400 exactly when the
\* course's enrollmentCount is positive; a refused delete leaves the course
\* stored unchanged, and with enrollmentCount 0 the answer is 200 and the
\* course is removed.
C12_DeleteRefusedIffEnrolled ==
  \A a \in Actors, c \in courses :
    c.instructorId = a.id =>
      ~ENABLED (deleteCourse(a, c.id) /\
                ~(/\ res'.status = 400 <=> c.enrollmentCount > 0
                  /\ c.enrollmentCount > 0 => courses' = courses
                  /\ c.enrollmentCount = 0 =>
                       (res'.status = 200 /\ courses' = courses \ {c})))

\* C12 witness: a deleteCourse has been refused with 400 for a course with
\* an enrollment, after another course was deleted.
C12_DeleteRefused ==
  /\ res.op = "deleteCourse" /\ res.status = 400
  /\ \E c \in courses : c.enrollmentCount > 0
  /\ \E id \in CourseIds : id < nextCourseId /\ (\A c \in courses : c.id # id)

\* C17: getCourseStats aggregates over exactly the actor's courses:
\* totalCourses is their number, publishedCourses and draftCourses count
\* those published and draft, totalEnrollments sums enrollmentCount and
\* totalRevenue sums price * enrollmentCount; all zero without a course.
C17_StatsOverOwnCourses ==
  \A a \in Actors :
    LET own == {c \in courses : c.instructorId = a.id}
        st == getCourseStatsResp(a).data[1]
    IN /\ st.totalCourses = Cardinality(own)
       /\ st.publishedCourses = Cardinality({c \in own : c.status = "published"})
       /\ st.draftCourses = Cardinality({c \in own : c.status = "draft"})
       /\ st.totalEnrollments = SumEnrollments(own)
       /\ st.totalRevenue = SumRevenue(own)

\* the courses a getCourses response carries
Listed(r) == {r.data[1].courses[i] : i \in 1..Len(r.data[1].courses)}

\* C15: getCourses without a status in the query lists only courses whose
\* stored status is published: a draft or unpublished course is on no page,
\* and a published course is on one of the pages.
C15_DefaultListsPublished ==
  \A limit \in Limits, so \in SortOrders :
    /\ \A page \in Pages :
         \A c \in Listed(getCoursesResp(page, limit, NoStatus, so)) :
           c \in courses /\ c.status = "published"
    /\ \A c \in courses :
         c.status = "published" =>
           \E page \in 1..MaxCourses :
             c \in Listed(getCoursesResp(page, limit, NoStatus, so))

\* C15 witness: a listing has returned a published course while another
\* stored course is not published.
C15_PublishedListed ==
  /\ res.op = "getCourses"
  /\ \E c \in Listed(res) : c.status = "published"
  /\ \E c \in courses : c.status # "published"
  /\ Listed(getCoursesResp(1, MaxLimit, NoStatus, "desc")) # {}

\* C16: for page >= 1 and limit >= 1 getCourses returns at most limit
\* courses, currentPage = page, totalCourses = the number of courses matching
\* the filter, totalPages = ceil(totalCourses / limit), hasNextPage iff
\* page < totalPages and hasPrevPage iff page > 1.
C16_Pagination ==
  \A page \in Pages, limit \in Limits, st \in Statuses \cup {NoStatus},
     so \in SortOrders :
    LET d == getCoursesResp(page, limit, st, so).data[1]
        p == d.pagination
        matching == {c \in courses :
                       c.status = IF st = NoStatus THEN "published" ELSE st}
    IN /\ Len(d.courses) <= limit
       /\ p.currentPage = page
       /\ p.totalCourses = Cardinality(matching)
       /\ p.totalPages * limit >= p.totalCourses
       /\ (p.totalPages - 1) * limit < p.totalCourses
       /\ p.hasNextPage <=> page < p.totalPages
       /\ p.hasPrevPage <=> page > 1

\* C16 witness: a listing has answered a first page that has a next page.
C16_FirstOfSeveralPages ==
  /\ res.op = "getCourses"
  /\ res.data[1].pagination.hasNextPage
  /\ ~res.data[1].pagination.hasPrevPage
  /\ Len(res.data[1].courses) = 1
  /\ res.data[1].pagination.totalCourses = 2

\* C18: registerStudent or registerInstructor with an email that, letter
\* case aside, belongs to a stored user answers 409 and leaves the User
\* collection as it was, whatever the two roles.
C18_DuplicateEmailConflict ==
  [][ \A e \in Emails, p \in Passwords, s \in Salts :
        (registerStudent(e, p, s) \/ registerInstructor(e, p, s)) =>
          ((\E u \in users : toLowerCase(u.email) = toLowerCase(e)) =>
             (res'.status = 409 /\ users' = users))
    ]_vars

\* C18 witness: an instructor registration has been refused with 409 while
\* the only stored user is a student.
C18_SecondRegistrationRefused ==
  /\ res.op = "registerInstructor" /\ res.status = 409
  /\ users # {} /\ \A u \in users : u.role = "student"

\* C19: a failed login answers the same for an unknown email and for a known
\* email with a wrong password: with the user removed from the store the
\* response to the same request is identical, 401 with the same message.
C19_FailedLoginIndistinguishable ==
  \A e \in Emails, p \in Passwords :
    \A u \in users :
      (u.email = toLowerCase(e) /\ ~comparePassword(p, u.password)) =>
        /\ loginIn(users, e, p).status = 401
        /\ loginIn(users, e, p) = loginIn(users \ {u}, e, p)

\* C19 witness: a login has failed with 401 while one email is registered
\* and another is not.
C19_LoginFailed ==
  /\ res.op = "login" /\ res.status = 401
  /\ \E u \in users : \E e \in Emails :
       /\ \A v \in users : v.email # toLowerCase(e)
       /\ \E p \in Passwords : ~comparePassword(p, u.password)

\* C20 as stated: changePassword answers 400 and leaves the stored hash
\* unchanged when the current password does not verify; otherwise the stored
\* hash becomes the hash of the new password, login then succeeds with the
\* new password and fails with 401 for the old one.
C20_ChangePassword ==
  [][ \A id \in UserIds, cur \in Passwords, new \in Passwords, s \in Salts :
        changePassword(id, cur, new, s) =>
          \A u \in users :
            u.id = id =>
              IF ~comparePassword(cur, u.password)
              THEN res'.status = 400 /\ users' = users
              ELSE /\ \E v \in users' :
                        v.id = id /\ v.password = hashPassword(new, s)
                   /\ loginIn(users', u.email, new).status = 200
                   /\ loginIn(users', u.email, cur).status = 401
    ]_vars

\* C20 amended: as C20, the old password being refused with 401 when it
\* differs from the new one.
C20_ChangePasswordDistinct ==
  [][ \A id \in UserIds, cur \in Passwords, new \in Passwords, s \in Salts :
        changePassword(id, cur, new, s) =>
          \A u \in users :
            u.id = id =>
              IF ~comparePassword(cur, u.password)
              THEN res'.status = 400 /\ users' = users
              ELSE /\ res'.status = 200
                   /\ \E v \in users' :
                        v.id = id /\ v.password = hashPassword(new, s)
                   /\ loginIn(users', u.email, new).status = 200
                   /\ cur # new => loginIn(users', u.email, cur).status = 401
    ]_vars

\* C20 witness: a changePassword has been accepted and a stored hash
\* verifies p2 and no longer p1.
C20_PasswordChanged ==
  /\ res.op = "changePassword" /\ res.status = 200
  /\ \E u \in users :
       comparePassword("p2", u.password) /\ ~comparePassword("p1", u.password)

\* module ids the store has handed out and holds no more
DeletedModuleIds ==
  {mid \in ModuleIds : mid < nextModuleId /\ \A m \in modules : m.id # mid}

\* C22 (as claimed): a deleted section or module stays deleted: a later get,
\* update, delete or reorder that names its id, sent by an instructor for a
\* parent he owns, answers 404, and no step stores a record with that id
\* again.
C22_DeletedStaysDeleted ==
  /\ \A sid \in DeletedSectionIds :
       /\ \A c \in CourseIds : getSectionResp(c, sid).status = 404
       /\ \A a \in Actors, c \in CourseIds :
            Owns(a, c) =>
              /\ \A o \in Orders \cup {NoOrder} :
                   ~ENABLED (updateSection(a, c, sid, o) /\ res'.status # 404)
              /\ ~ENABLED (deleteSection(a, c, sid) /\ res'.status # 404)
              /\ \A l \in ReorderLists(SectionIds) :
                   sid \in DOMAIN l =>
                     ~ENABLED (reorderSections(a, c, l) /\ res'.status # 404)
       /\ ~ENABLED (Next /\ \E s \in sections' : s.id = sid)
  /\ \A mid \in DeletedModuleIds :
       /\ \A s \in SectionIds : getModuleResp(s, mid).status = 404
       /\ \A a \in Actors, s \in SectionIds :
            OwnsSection(a, s) =>
              /\ \A o \in Orders \cup {NoOrder} :
                   ~ENABLED (updateModule(a, s, mid, o) /\ res'.status # 404)
              /\ ~ENABLED (deleteModule(a, s, mid) /\ res'.status # 404)
              /\ \A l \in ReorderLists(ModuleIds) :
                   mid \in DOMAIN l =>
                     ~ENABLED (reorderModules(a, s, l) /\ res'.status # 404)
       /\ ~ENABLED (Next /\ \E m \in modules' : m.id = mid)

\* C23 (as claimed): with an order in the patch the uniqueness check leaves
\* out the record's own id: the owner's update of a record to the order it
\* already has answers 200, and his update to an order held by another
\* sibling of the same parent is rejected and leaves both records as they
\* were.
C23_OwnOrderExcluded ==
  /\ \A a \in Actors, s \in sections :
       Owns(a, s.courseId) =>
         /\ ~ENABLED (updateSection(a, s.courseId, s.id, s.order) /\
                      res'.status # 200)
         /\ \A t \in sections :
              (t.courseId = s.courseId /\ t.id # s.id) =>
                ~ENABLED (updateSection(a, s.courseId, s.id, t.order) /\
                          ~(res'.status \notin {200, 201} /\ sections' = sections))
  /\ \A a \in Actors, m \in modules :
       OwnsSection(a, m.sectionId) =>
         /\ ~ENABLED (updateModule(a, m.sectionId, m.id, m.order) /\
                      res'.status # 200)
         /\ \A n \in modules :
              (n.sectionId = m.sectionId /\ n.id # m.id) =>
                ~ENABLED (updateModule(a, m.sectionId, m.id, n.order) /\
                          ~(res'.status \notin {200, 201} /\ modules' = modules))

\* C24 (as claimed): the owner's updateSection (updateModule) on an id that
\* is not a section of the course (a module of the section) answers 404
\* whatever the patch, also when the patch's order is that of an existing
\* sibling.
C24_UpdateMissingNotFound ==
  /\ \A a \in Actors, c \in CourseIds, sid \in SectionIds,
        o \in Orders \cup {NoOrder} :
       (Owns(a, c) /\ \A s \in sections : ~(s.id = sid /\ s.courseId = c)) =>
         ~ENABLED (updateSection(a, c, sid, o) /\ res'.status # 404)
  /\ \A a \in Actors, s \in SectionIds, mid \in ModuleIds,
        o \in Orders \cup {NoOrder} :
       (OwnsSection(a, s) /\ \A m \in modules : ~(m.id = mid /\ m.sectionId = s)) =>
         ~ENABLED (updateModule(a, s, mid, o) /\ res'.status # 404)

\* C27 (as claimed): once deleteCourse has succeeded for a course, none of
\* its sections and none of their modules is stored: every stored section's
\* courseId is the id of a stored course, and every stored module belongs to
\* such a section.
C27_DeleteCourseCascades ==
  /\ \A s \in sections : \E c \in courses : c.id = s.courseId
  /\ \A m \in modules :
       \E s \in sections :
         s.id = m.sectionId /\ \E c \in courses : c.id = s.courseId

\* C28: updateCourse through its validated route changes none of status,
\* rating, enrollmentCount and instructorId, whatever the body: a course's
\* status differs after a step only if the step is toggleCourseStatus, and
\* under the course routes every stored course has enrollmentCount 0 and
\* rating 0.
C28_UpdateCourseFrame ==
  [][ /\ \A c \in courses, d \in courses' :
           c.id = d.id =>
             /\ d.instructorId = c.instructorId
             /\ d.rating = c.rating
             /\ d.enrollmentCount = c.enrollmentCount
             /\ d.status # c.status => res'.op = "toggleCourseStatus"
      /\ \A d \in courses' : d.enrollmentCount = 0 /\ d.rating = 0
    ]_vars

\* C28 witness: an update through the route has been applied, the course
\* carrying the new title and still its draft status.
C28_UpdatedThroughRoute ==
  /\ res.op = "updateCourse" /\ res.status = 200
  /\ \E c \in courses : c.title = "t2" /\ c.status = "draft"

\* C21 (as claimed): a store failure during any handler is answered with
\* 500 and a generic message: nothing in the response carries the text of
\* the underlying error.
C21_InternalErrorGeneric ==
  res.status = 500 =>
    /\ Len(res.data) >= 1
    /\ \A i \in 1..Len(res.data) : res.data[i] \notin StoreErrors

\* the registration requests for an email, by slot
RegistrationsFor(e) ==
  {r \in Slots : inflight[r].op \in RegisterOps /\ inflight[r].email = e}

\* C25: under any interleaving of registerStudent and registerInstructor
\* requests with the same email, at most one user with that email is stored,
\* at most one of the requests has answered 201 and, once all of them have
\* answered, exactly one has.
C25_OneRegistrationPerEmail ==
  /\ \A u \in users, v \in users : u.email = v.email => u = v
  /\ \A e \in {toLowerCase(x) : x \in Emails} :
       LET R == RegistrationsFor(e)
           ok == {r \in R : inflight[r].status = 201} IN
       /\ Cardinality(ok) <= 1
       /\ (R # {} /\ \A r \in R : inflight[r].pc = "done") => Cardinality(ok) = 1

\* C25 witness: a registerStudent and a registerInstructor for the same email
\* both passed the findOne check; one was stored, the other's save was
\* rejected
C25_RaceLoserRejected ==
  \E r \in Slots, q \in Slots :
    /\ inflight[r].op = "registerStudent" /\ inflight[q].op = "registerInstructor"
    /\ inflight[r].email = inflight[q].email
    /\ {inflight[r].status, inflight[q].status} = {201, 500}

\* C26 (as claimed): in every reachable state, under every interleaving of
\* createModule with a deleteSection of its section, each stored module's
\* sectionId is the id of a stored section.
C26_ModuleSectionExists ==
  \A m \in modules : \E s \in sections : s.id = m.sectionId

\* C29 (as claimed): when updateCourse's write finds no course with the id
\* (a deleteCourse removed it after the ownership check), updateCourse
\* answers 404 and not a success.
C29_UpdateAfterDeleteNotFound ==
  [][ \A r \in Slots :
        (inflight[r].op = "updateCourse" /\ inflight'[r].op = "idle"
           /\ CourseById(inflight[r].id) = {})
        => res'.status = 404 ]_vars

\* a reorder list that gives no order twice
DuplicateFree(list) ==
  \A i \in DOMAIN list, j \in DOMAIN list : list[i] = list[j] => i = j

\* the stored order of each section a list names
FinalOrders(ids) ==
  [id \in ids |-> (CHOOSE s \in sections : s.id = id).order]

\* C30 (as claimed): when two reorderSections calls on the same course, each
\* giving a duplicate-free set of orders to the same sections, have both
\* answered 200, the stored orders of those sections are the ones one of the
\* two calls asked for (and so hold no duplicate).
C30_ReordersSerializable ==
  \A r \in Slots, q \in Slots :
    ( /\ r # q
      /\ inflight[r].op = "reorderSections" /\ inflight[q].op = "reorderSections"
      /\ inflight[r].pc = "done" /\ inflight[q].pc = "done"
      /\ inflight[r].status = 200 /\ inflight[q].status = 200
      /\ inflight[r].courseId = inflight[q].courseId
      /\ DOMAIN inflight[r].list = DOMAIN inflight[q].list
      /\ DuplicateFree(inflight[r].list) /\ DuplicateFree(inflight[q].list) )
    => FinalOrders(DOMAIN inflight[r].list) \in {inflight[r].list, inflight[q].list}

====
